---- MODULE Spec2Model ----
(***************************************************************************)
(* Model of minvandforsyning_companion/app.py: the poll loop (adaptive     *)
(* scheduler), the reconciliation of scraped readings into LAST_GOOD and   *)
(* STATE, the persisted last_good.json record and the /state readers.      *)
(*                                                                         *)
(* Encoding.  Readings are fixed-point integers in units of 0.0001 m3      *)
(* (100.0000 m3 = 1000000, tolerance 0.0005 m3 = 5).  Wall-clock times are *)
(* integer seconds.  Meter-side timestamps (read_at_iso) are positive      *)
(* ordinals.  Python's None is None (-1) for optional numbers and NoneStr  *)
(* for the optional error string.  The raw page text that STATE echoes is  *)
(* an opaque string no operation reads: it is RawText when present and     *)
(* NoRaw when absent.                                                      *)
(***************************************************************************)
EXTENDS Integers, Sequences, FiniteSets, TLC

None == -1
NoneStr == "<None>"
NoRaw == "<None>"
RawText == "<page text>"

\* ------------------------------------------------------------------ bounds
\* Latest wall-clock second at which the model lets an iteration end.
MaxTime == 90

\* ------------------------------------------------------------------ inputs
\* Readings the page can show: 99.9994, 99.9996, 100.0000 m3.
Readings == {999994, 999996, 1000000}
\* Meter-side timestamps the page can show.
Stamps == {1, 2}
\* A page text is <<value, time>>: what the two patterns of parse_dom_text
\* find in it (None where a pattern finds nothing).  EmptyTxt is "".
Texts == {<<v, t>> : v \in Readings \cup {None}, t \in Stamps \cup {None}}
EmptyTxt == <<None>>
\* str(e) of an exception raised while the browser session runs.
ErrorMsgs == {"Timeout 60000ms exceeded", ""}
\* Seconds one scrape_once call takes beyond the sleep before it.
ScrapeSeconds == {0}
\* last_good.json as an earlier run of the program can have left it: missing,
\* or written at time 0 with the reading 100.0000 and with or without a timestamp.
PersistedFiles ==
    {[reading_m3 |-> None, read_at_iso |-> None, updated_utc |-> None]} \cup
    {[reading_m3 |-> 1000000, read_at_iso |-> s, updated_utc |-> 0] : s \in {None, 1}}
\* What _write_json does to the file: written, left alone (open failed), or
\* truncated and left unparseable (the dump failed after the open).
WriteOutcomes == {"written", "untouched", "truncated"}

\* Option values load_options can return.
OptionSets ==
    [ idle_poll_seconds     : {60},
      probe_after_minutes   : {0, 1},
      probe_poll_seconds    : {30},
      probe_max_minutes     : {0, 1},
      min_poll_seconds      : {30},
      jitter_seconds        : {0},
      keep_last_on_error    : BOOLEAN,
      allow_decrease        : BOOLEAN,
      decrease_tolerance_m3 : {5} ]

\* The poll loop's options before the first load_options call.
NoOpts ==
    [ idle_poll_seconds     |-> 1800,
      probe_after_minutes   |-> 45,
      probe_poll_seconds    |-> 120,
      probe_max_minutes     |-> 20,
      min_poll_seconds      |-> 30,
      jitter_seconds        |-> 15,
      keep_last_on_error    |-> TRUE,
      allow_decrease        |-> FALSE,
      decrease_tolerance_m3 |-> 5 ]

VARIABLES
    now,                \* wall clock, seconds
    disk,               \* content of last_good.json (NoLastGood: missing or unparseable)
    LAST_GOOD,          \* module global LAST_GOOD
    State,              \* module global STATE (STATE is a reserved word)
    pc,                 \* position of the poll_loop thread
    opts,               \* poll_loop: the options of this iteration
    result,             \* poll_loop: outcome of scrape_once in this iteration
    updated,            \* _apply_result_to_state: what _update_last_good returned
    changed,            \* poll_loop: changed
    last_change_utc,    \* poll_loop: last_change_utc
    probe_started_utc,  \* poll_loop: probe_started_utc
    last_seen_read_at,  \* poll_loop: last_seen_read_at
    stmt,               \* statements of the iteration already executed (race model)
    committed,          \* STATE as the last completed iteration left it
    resp,               \* last answer of GET /state or /state_raw
    prev_obs            \* reading and read_at of the last successful scrape processed

vars == << now, disk, LAST_GOOD, State, pc, opts, result, updated, changed,
           last_change_utc, probe_started_utc, last_seen_read_at, stmt,
           committed, resp, prev_obs >>

\* ------------------------------------------------------------- persistence
NoLastGood == [reading_m3 |-> None, read_at_iso |-> None, updated_utc |-> None]

\* load_last_good: the file's record if it holds a reading, else the empty record.
load_last_good(file) ==
    IF file.reading_m3 # None THEN file ELSE NoLastGood

\* save_last_good / _write_json: the file after an attempt to write data.
save_last_good(file, data, outcome) ==
    CASE outcome = "written"   -> data
      [] outcome = "untouched" -> file
      [] OTHER                 -> NoLastGood

\* The initial value of STATE.
InitialSTATE ==
    [ ok                   |-> FALSE,
      error                |-> "Not scraped yet",
      reading_m3           |-> None,
      read_at_iso          |-> None,
      scraped_at_utc       |-> None,
      raw                  |-> NoRaw,
      stale                |-> TRUE,
      mode                 |-> "idle",
      next_poll_in_seconds |-> None,
      last_success_utc     |-> None,
      fail_count           |-> 0 ]

\* ------------------------------------------------------------------ scrape
\* parse_dom_text: reading, read_at and raw text of a page text.
parse_dom_text(txt) ==
    [reading_m3 |-> txt[1], read_at_iso |-> txt[2], raw |-> RawText]

NoResult ==
    [ ok |-> FALSE, error |-> NoneStr, reading_m3 |-> None, read_at_iso |-> None,
      scraped_at_utc |-> None, raw |-> NoRaw ]

\* scrape_once on a page that yields txt at time t: the result dictionary, or
\* (ok = FALSE) the exception raised for an empty text.
scrape_once(txt, t) ==
    IF txt = EmptyTxt
    THEN [NoResult EXCEPT !.error = "Fandt ikke 'aflaest til' tekst i DOM efter login"]
    ELSE LET p == parse_dom_text(txt)
         IN  [ ok |-> TRUE, error |-> NoneStr, reading_m3 |-> p.reading_m3,
               read_at_iso |-> p.read_at_iso, scraped_at_utc |-> t, raw |-> p.raw ]

\* ---------------------------------------------------------- reconciliation
\* Mutant of accepts: the tolerance is forgotten.
accepts_without_tolerance(new_reading, old, allow_decrease, decrease_tolerance_m3) ==
    IF allow_decrease THEN TRUE
    ELSE new_reading >= old

\* _update_last_good, lines 182-185: whether a reading is accepted over old.
accepts(new_reading, old, allow_decrease, decrease_tolerance_m3) ==
    IF allow_decrease THEN TRUE
    ELSE new_reading >= old - decrease_tolerance_m3

\* Mutant of clamp: the accepted reading is stored as it came.
clamp_forgotten(new_reading, old) ==
    new_reading

\* _update_last_good, line 188: max(float(new_reading), float(old)).
clamp(new_reading, old) ==
    IF new_reading >= old THEN new_reading ELSE old

\* _update_last_good, line 191: new_read_at_iso or LAST_GOOD.get("read_at_iso").
read_at_or(new_read_at_iso, old_read_at_iso) ==
    IF new_read_at_iso # None THEN new_read_at_iso ELSE old_read_at_iso

\* _update_last_good: the new LAST_GOOD and the returned flag.
_update_last_good(lg, new_reading, new_read_at_iso, allow_decrease, decrease_tolerance_m3, t) ==
    IF new_reading = None
    THEN [lg |-> lg, updated |-> FALSE]
    ELSE IF lg.reading_m3 = None
    THEN [lg |-> [reading_m3 |-> new_reading, read_at_iso |-> new_read_at_iso,
                  updated_utc |-> t],
          updated |-> TRUE]
    ELSE IF accepts(new_reading, lg.reading_m3, allow_decrease, decrease_tolerance_m3)
    THEN [lg |-> [reading_m3 |-> clamp(new_reading, lg.reading_m3),
                  read_at_iso |-> read_at_or(new_read_at_iso, lg.read_at_iso),
                  updated_utc |-> t],
          updated |-> TRUE]
    ELSE [lg |-> lg, updated |-> FALSE]

\* Number of statements of _apply_result_to_state that write STATE, on either
\* path (lines 217-225 and lines 228-241).
ApplyStmts == 8

\* Mutant of SuccessStmt: line 223 is missing, so STATE keeps the reading that
\* STATE.update(result) put there.
SuccessStmt_without_223(k, st, lg, res, upd, t) ==
    CASE k = 1 -> IF upd THEN [st EXCEPT !.last_success_utc = t] ELSE st
      [] k = 2 -> IF upd THEN [st EXCEPT !.fail_count = 0] ELSE st
      [] k = 3 -> [st EXCEPT !.ok = res.ok, !.error = res.error,
                             !.reading_m3 = res.reading_m3,
                             !.read_at_iso = res.read_at_iso,
                             !.scraped_at_utc = res.scraped_at_utc,
                             !.raw = res.raw]
      [] k = 4 -> [st EXCEPT !.stale = FALSE]
      [] k = 5 -> [st EXCEPT !.ok = (lg.reading_m3 # None)]
      [] k = 6 -> st
      [] k = 7 -> [st EXCEPT !.read_at_iso = lg.read_at_iso]
      [] OTHER -> [st EXCEPT !.error = NoneStr]

\* _apply_result_to_state, success path: STATE after its k-th statement.
SuccessStmt(k, st, lg, res, upd, t) ==
    CASE k = 1 -> IF upd THEN [st EXCEPT !.last_success_utc = t] ELSE st
      [] k = 2 -> IF upd THEN [st EXCEPT !.fail_count = 0] ELSE st
      [] k = 3 -> [st EXCEPT !.ok = res.ok, !.error = res.error,
                             !.reading_m3 = res.reading_m3,
                             !.read_at_iso = res.read_at_iso,
                             !.scraped_at_utc = res.scraped_at_utc,
                             !.raw = res.raw]
      [] k = 4 -> [st EXCEPT !.stale = FALSE]
      [] k = 5 -> [st EXCEPT !.ok = (lg.reading_m3 # None)]
      [] k = 6 -> [st EXCEPT !.reading_m3 = lg.reading_m3]
      [] k = 7 -> [st EXCEPT !.read_at_iso = lg.read_at_iso]
      [] OTHER -> [st EXCEPT !.error = NoneStr]

\* Mutant of error_text: an empty message is recorded as it is.
error_text_as_raised(error) ==
    error

\* _apply_result_to_state, line 230: error or "Unknown error" (result is None).
error_text(error) ==
    IF error # "" THEN error ELSE "Unknown error"

\* Mutant of FailureStmt: line 228 is missing, the failure is not counted.
FailureStmt_uncounted(k, st, lg, error, keep_last_on_error, t) ==
    CASE k = 1 -> st
      [] k = 2 -> [st EXCEPT !.scraped_at_utc = t]
      [] k = 3 -> [st EXCEPT !.error = IF error # "" THEN error ELSE "Unknown error"]
      [] k = 4 -> [st EXCEPT !.raw = NoRaw]
      [] k = 5 -> [st EXCEPT !.stale = TRUE]
      [] k = 6 -> [st EXCEPT !.ok = (keep_last_on_error /\ lg.reading_m3 # None)]
      [] k = 7 -> [st EXCEPT !.reading_m3 =
                      IF keep_last_on_error /\ lg.reading_m3 # None
                      THEN lg.reading_m3 ELSE None]
      [] OTHER -> [st EXCEPT !.read_at_iso =
                      IF keep_last_on_error /\ lg.reading_m3 # None
                      THEN lg.read_at_iso ELSE None]

\* Mutant of keeps_last: the test for a last good reading is inverted.
keeps_last_inverted(keep_last_on_error, lg) ==
    keep_last_on_error /\ lg.reading_m3 = None

\* _apply_result_to_state, line 234: whether the last good reading is kept.
keeps_last(keep_last_on_error, lg) ==
    keep_last_on_error /\ lg.reading_m3 # None

\* _apply_result_to_state, failure path: STATE after its k-th statement.
FailureStmt(k, st, lg, error, keep_last_on_error, t) ==
    CASE k = 1 -> [st EXCEPT !.fail_count = st.fail_count + 1]
      [] k = 2 -> [st EXCEPT !.scraped_at_utc = t]
      [] k = 3 -> [st EXCEPT !.error = error_text(error)]
      [] k = 4 -> [st EXCEPT !.raw = NoRaw]
      [] k = 5 -> [st EXCEPT !.stale = TRUE]
      [] k = 6 -> [st EXCEPT !.ok = keeps_last(keep_last_on_error, lg)]
      [] k = 7 -> [st EXCEPT !.reading_m3 =
                      IF keeps_last(keep_last_on_error, lg) THEN lg.reading_m3 ELSE None]
      [] OTHER -> [st EXCEPT !.read_at_iso =
                      IF keeps_last(keep_last_on_error, lg) THEN lg.read_at_iso ELSE None]

\* The k-th STATE-writing statement of _apply_result_to_state for outcome res.
ApplyStmt(k, st, lg, res, upd, keep_last_on_error, t) ==
    IF res.ok THEN SuccessStmt(k, st, lg, res, upd, t)
    ELSE FailureStmt(k, st, lg, res.error, keep_last_on_error, t)

RECURSIVE RunStmts(_, _, _, _, _, _, _, _)
\* Statements from..to of _apply_result_to_state, in order.
RunStmts(from, to, st, lg, res, upd, keep_last_on_error, t) ==
    IF from > to THEN st
    ELSE RunStmts(from + 1, to, ApplyStmt(from, st, lg, res, upd, keep_last_on_error, t),
                  lg, res, upd, keep_last_on_error, t)

\* _apply_result_to_state: STATE after the whole call (lg: LAST_GOOD after
\* _update_last_good, upd: its return value).
_apply_result_to_state(st, lg, res, upd, keep_last_on_error, t) ==
    RunStmts(1, ApplyStmts, st, lg, res, upd, keep_last_on_error, t)

\* --------------------------------------------------------------- scheduler
\* poll_loop, lines 295-304: change detection on STATE after reconciliation.
change_detection(st, seen) ==
    IF st.read_at_iso # None /\ st.read_at_iso # seen
    THEN [changed |-> TRUE, last_seen_read_at |-> st.read_at_iso]
    ELSE IF seen = None /\ st.reading_m3 # None
    THEN [changed |-> TRUE, last_seen_read_at |-> st.read_at_iso]
    ELSE [changed |-> FALSE, last_seen_read_at |-> seen]

SecondsPerMinute == 60

\* Mutant of _compute_mode: the age must exceed the threshold.
_compute_mode_strict(last_change, probe_after_minutes, t) ==
    IF last_change = None THEN "probe"
    ELSE IF t - last_change > probe_after_minutes * SecondsPerMinute
    THEN "probe" ELSE "idle"

\* poll_loop, lines 306-308: last_change_utc and probe_started_utc after
\* change detection.  Mutant of after_change: line 308 is missing.
after_change_keeps_probe(is_changed, last_change, probe_started, t) ==
    IF is_changed
    THEN [last_change_utc |-> t, probe_started_utc |-> probe_started]
    ELSE [last_change_utc |-> last_change, probe_started_utc |-> probe_started]

\* poll_loop, lines 306-308: last_change_utc and probe_started_utc after
\* change detection.
after_change(is_changed, last_change, probe_started, t) ==
    IF is_changed
    THEN [last_change_utc |-> t, probe_started_utc |-> None]
    ELSE [last_change_utc |-> last_change, probe_started_utc |-> probe_started]

\* _compute_mode at wall-clock time t.
_compute_mode(last_change, probe_after_minutes, t) ==
    IF last_change = None THEN "probe"
    ELSE IF t - last_change >= probe_after_minutes * SecondsPerMinute
    THEN "probe" ELSE "idle"

\* Mutant of probe_window: an expired window is not cleared (line 320 missing).
probe_window_not_cleared(mode, probe_started, probe_max_minutes, t) ==
    IF mode = "probe"
    THEN IF probe_started = None
         THEN [mode |-> "probe", probe_started_utc |-> t]
         ELSE IF t - probe_started > probe_max_minutes * SecondsPerMinute
         THEN [mode |-> "idle", probe_started_utc |-> probe_started]
         ELSE [mode |-> "probe", probe_started_utc |-> probe_started]
    ELSE [mode |-> mode, probe_started_utc |-> probe_started]

\* poll_loop, lines 315-320: the probe window; mode and probe_started_utc after it.
probe_window(mode, probe_started, probe_max_minutes, t) ==
    IF mode = "probe"
    THEN IF probe_started = None
         THEN [mode |-> "probe", probe_started_utc |-> t]
         ELSE IF t - probe_started > probe_max_minutes * SecondsPerMinute
         THEN [mode |-> "idle", probe_started_utc |-> None]
         ELSE [mode |-> "probe", probe_started_utc |-> probe_started]
    ELSE [mode |-> mode, probe_started_utc |-> probe_started]

\* int(x / 2) for an integer x: Python's int() truncates toward zero.
TruncHalf(x) ==
    IF x >= 0 THEN x \div 2 ELSE -((-x) \div 2)

Min(a, b) == IF a <= b THEN a ELSE b
Max(a, b) == IF a >= b THEN a ELSE b

BackoffCap == 900

\* Mutant of sleep_base: the backoff factor of line 262 lacks its 1.0, so one
\* failure halves the delay.
sleep_base_factor_from_zero(mode, idle_poll_seconds, probe_poll_seconds, min_poll_seconds, fail_count) ==
    LET base == IF mode = "idle" THEN idle_poll_seconds ELSE probe_poll_seconds
        backed == IF fail_count > 0
                  THEN Min(TruncHalf(base * Min(8, fail_count)), BackoffCap)
                  ELSE base
    IN  Max(backed, min_poll_seconds)

\* Mutant of sleep_base: line 263, the cap of the backed-off delay, is missing.
sleep_base_uncapped(mode, idle_poll_seconds, probe_poll_seconds, min_poll_seconds, fail_count) ==
    LET base == IF mode = "idle" THEN idle_poll_seconds ELSE probe_poll_seconds
        backed == IF fail_count > 0
                  THEN TruncHalf(base * Min(8, 2 + fail_count))
                  ELSE base
    IN  Max(backed, min_poll_seconds)

\* _compute_sleep_seconds, lines 259-265: the delay before jitter.
\* min(4.0, 1.0 + fail_count * 0.5) is Min(8, 2 + fail_count) halves.
sleep_base(mode, idle_poll_seconds, probe_poll_seconds, min_poll_seconds, fail_count) ==
    LET base == IF mode = "idle" THEN idle_poll_seconds ELSE probe_poll_seconds
        backed == IF fail_count > 0
                  THEN Min(TruncHalf(base * Min(8, 2 + fail_count)), BackoffCap)
                  ELSE base
    IN  Max(backed, min_poll_seconds)

\* _compute_sleep_seconds, line 266: the values random.randint can return.
jitter_range(jitter_seconds) ==
    0 .. Max(0, jitter_seconds)

\* _compute_sleep_seconds with the random draw j.
_compute_sleep_seconds(mode, o, fail_count, j) ==
    sleep_base(mode, o.idle_poll_seconds, o.probe_poll_seconds,
               o.min_poll_seconds, fail_count) + j

\* ------------------------------------------------------------------ readers
NoResp == [code |-> 0, body |-> InitialSTATE, prev |-> InitialSTATE]
\* No successful scrape has been processed yet.
NoObs == <<>>

\* get_state: 503 with STATE as detail while LAST_GOOD has no reading, else STATE.
get_state_response(lg, st) ==
    IF lg.reading_m3 = None THEN [code |-> 503, body |-> st]
    ELSE [code |-> 200, body |-> st]

\* get_state_raw: STATE.
get_state_raw_response(st) ==
    [code |-> 200, body |-> st]

\* ------------------------------------------------------------ process start
\* Module import and the entry of poll_loop: LAST_GOOD is loaded from the file,
\* STATE is the initial dictionary, the scheduler's locals are fresh.
Boot(file) ==
    /\ LAST_GOOD = load_last_good(file)
    /\ State = InitialSTATE
    /\ pc = "loop"
    /\ opts = NoOpts
    /\ result = NoResult
    /\ updated = FALSE
    /\ changed = FALSE
    /\ last_change_utc = None
    /\ probe_started_utc = None
    /\ last_seen_read_at = load_last_good(file).read_at_iso
    /\ stmt = 0
    /\ committed = InitialSTATE
    /\ resp = NoResp
    /\ prev_obs = NoObs

\* The process starts at time 0 on whatever last_good.json holds.
Init ==
    /\ now = 0
    /\ disk \in PersistedFiles
    /\ Boot(disk)

\* ---------------------------------------------------------------- poll_loop
\* Lines 291-292 and 310: what scrape_once hands to the loop at time t, for a
\* page (a text, or the message of the exception the browser session raised).
Outcomes(texts, errors, t) ==
    {scrape_once(txt, t) : txt \in texts} \cup
    {[NoResult EXCEPT !.error = e] : e \in errors}

\* Line 210: the outcome of _update_last_good for result res under options o
\* (nothing is called on the failure path).
Reconciled(lg, res, o, t) ==
    IF res.ok
    THEN _update_last_good(lg, res.reading_m3, res.read_at_iso,
                           o.allow_decrease, o.decrease_tolerance_m3, t)
    ELSE [lg |-> lg, updated |-> FALSE]

\* Lines 295-320 on STATE st after reconciliation: the scheduler's locals
\* (seen, lc, ps: last_seen_read_at, last_change_utc, probe_started_utc before).
Scheduled(st, res, o, seen, lc, ps, t) ==
    LET cd  == IF res.ok THEN change_detection(st, seen)
               ELSE [changed |-> FALSE, last_seen_read_at |-> seen]
        ac  == after_change(cd.changed, lc, ps, t)
        pw  == probe_window(_compute_mode(ac.last_change_utc, o.probe_after_minutes, t),
                            ac.probe_started_utc, o.probe_max_minutes, t)
    IN  [ changed |-> cd.changed, last_seen_read_at |-> cd.last_seen_read_at,
          last_change_utc |-> ac.last_change_utc,
          probe_started_utc |-> pw.probe_started_utc,
          mode |-> pw.mode ]

\* One iteration of the loop up to its sleep, lines 278-332: load the options,
\* scrape, reconcile, detect a change, choose the mode, compute and publish
\* the delay.
Iteration(options, texts, errors) ==
    /\ pc = "loop"
    /\ \E o \in options, d \in ScrapeSeconds :
       \E res \in Outcomes(texts, errors, now + d) :
       \E w \in WriteOutcomes, j \in jitter_range(o.jitter_seconds) :
       \E u \in {Reconciled(LAST_GOOD, res, o, now + d)} :
       \E st1 \in {_apply_result_to_state(State, u.lg, res, u.updated,
                                          o.keep_last_on_error, now + d)} :
       \E sc \in {Scheduled(st1, res, o, last_seen_read_at, last_change_utc,
                            probe_started_utc, now + d)} :
       \E st3 \in {[st1 EXCEPT !.mode = sc.mode,
                               !.next_poll_in_seconds =
                                   _compute_sleep_seconds(sc.mode, o, st1.fail_count, j)]} :
            /\ now + d <= MaxTime
            /\ now' = now + d
            /\ opts' = o
            /\ result' = res
            /\ LAST_GOOD' = u.lg
            /\ disk' = IF u.updated THEN save_last_good(disk, u.lg, w) ELSE disk
            /\ updated' = u.updated
            /\ changed' = sc.changed
            /\ last_seen_read_at' = sc.last_seen_read_at
            /\ last_change_utc' = sc.last_change_utc
            /\ probe_started_utc' = sc.probe_started_utc
            /\ State' = st3
            /\ committed' = st3
    /\ pc' = "sleep"
    /\ UNCHANGED << stmt, resp >>

PollIteration ==
    /\ Iteration(OptionSets, Texts \cup {EmptyTxt}, ErrorMsgs)
    /\ UNCHANGED prev_obs

\* Line 333: time.sleep; the next iteration starts when it returns.
Sleep ==
    /\ pc = "sleep"
    /\ now + State.next_poll_in_seconds <= MaxTime
    /\ now' = now + State.next_poll_in_seconds
    /\ pc' = "loop"
    /\ opts' = NoOpts
    /\ result' = NoResult
    /\ updated' = FALSE
    /\ changed' = FALSE
    /\ UNCHANGED << disk, LAST_GOOD, State, last_change_utc, probe_started_utc,
                    last_seen_read_at, stmt, committed, resp, prev_obs >>

Next == PollIteration \/ Sleep

Spec == Init /\ [][Next]_vars

\* --------------------------------------------- repeated identical scrapes
\* The loop with the last successfully scraped pair remembered, under the
\* default stability options and both probe_after_minutes values.
IdemOptionSets ==
    {o \in OptionSets : o.keep_last_on_error /\ ~o.allow_decrease /\ o.probe_max_minutes = 1}

IdemIteration ==
    /\ Iteration(IdemOptionSets, Texts \cup {EmptyTxt}, ErrorMsgs)
    /\ prev_obs' = IF result'.ok
                   THEN << result'.reading_m3, result'.read_at_iso >>
                   ELSE prev_obs

NextIdem == IdemIteration \/ Sleep

SpecIdem == Init /\ [][NextIdem]_vars

\* --------------------------------------- the loop statement by statement
\* The same iteration as PollIteration, one write of shared state per step,
\* with GET /state and GET /state_raw served by another thread in between.
RaceOptionSets ==
    {o \in OptionSets : ~o.allow_decrease /\ o.probe_after_minutes = 1
                        /\ o.probe_max_minutes = 1}
RaceTexts == {<< v, 1 >> : v \in Readings}
RaceErrors == {"Timeout 60000ms exceeded"}

\* Lines 278-292: load_options, then scrape_once returns or raises.
RaceFetch ==
    /\ pc = "loop"
    /\ \E o \in RaceOptionSets, d \in ScrapeSeconds :
       \E res \in Outcomes(RaceTexts, RaceErrors, now + d) :
            /\ now + d <= MaxTime
            /\ now' = now + d
            /\ opts' = o
            /\ result' = res
    /\ pc' = "apply"
    /\ resp' = NoResp
    /\ UNCHANGED << disk, LAST_GOOD, State, updated, changed, last_change_utc,
                    probe_started_utc, last_seen_read_at, stmt, committed, prev_obs >>

\* Line 210: _update_last_good rebinds LAST_GOOD and saves it.
RaceReconcile ==
    /\ pc = "apply"
    /\ \E w \in WriteOutcomes :
       \E u \in {Reconciled(LAST_GOOD, result, opts, now)} :
            /\ LAST_GOOD' = u.lg
            /\ disk' = IF u.updated THEN save_last_good(disk, u.lg, w) ELSE disk
            /\ updated' = u.updated
    /\ pc' = "stmts"
    /\ stmt' = 0
    /\ UNCHANGED << now, State, opts, result, changed, last_change_utc,
                    probe_started_utc, last_seen_read_at, committed, resp, prev_obs >>

\* Lines 217-225 or 228-241: the next statement of _apply_result_to_state.
RaceStmt ==
    /\ pc = "stmts"
    /\ stmt < ApplyStmts
    /\ State' = ApplyStmt(stmt + 1, State, LAST_GOOD, result, updated,
                          opts.keep_last_on_error, now)
    /\ stmt' = stmt + 1
    /\ UNCHANGED << now, disk, LAST_GOOD, pc, opts, result, updated, changed,
                    last_change_utc, probe_started_utc, last_seen_read_at,
                    committed, resp, prev_obs >>

\* Lines 295-322: change detection, the mode, STATE["mode"] = mode.
RaceMode ==
    /\ pc = "stmts"
    /\ stmt = ApplyStmts
    /\ \E sc \in {Scheduled(State, result, opts, last_seen_read_at, last_change_utc,
                            probe_started_utc, now)} :
            /\ changed' = sc.changed
            /\ last_seen_read_at' = sc.last_seen_read_at
            /\ last_change_utc' = sc.last_change_utc
            /\ probe_started_utc' = sc.probe_started_utc
            /\ State' = [State EXCEPT !.mode = sc.mode]
    /\ pc' = "publish"
    /\ stmt' = 0
    /\ UNCHANGED << now, disk, LAST_GOOD, opts, result, updated, committed,
                    resp, prev_obs >>

\* Lines 324-332: the delay is computed and published; the iteration is complete.
RacePublish ==
    /\ pc = "publish"
    /\ \E j \in jitter_range(opts.jitter_seconds) :
            State' = [State EXCEPT !.next_poll_in_seconds =
                          _compute_sleep_seconds(State.mode, opts, State.fail_count, j)]
    /\ committed' = State'
    /\ pc' = "sleep"
    /\ UNCHANGED << now, disk, LAST_GOOD, opts, result, updated, changed,
                    last_change_utc, probe_started_utc, last_seen_read_at, stmt,
                    resp, prev_obs >>

\* GET /state, answered once per iteration of the loop, wherever the loop is.
get_state ==
    /\ resp.code = 0
    /\ resp' = [ code |-> get_state_response(LAST_GOOD, State).code,
                 body |-> get_state_response(LAST_GOOD, State).body,
                 prev |-> committed ]
    /\ UNCHANGED << now, disk, LAST_GOOD, State, pc, opts, result, updated, changed,
                    last_change_utc, probe_started_utc, last_seen_read_at, stmt,
                    committed, prev_obs >>

\* GET /state_raw, likewise.
get_state_raw ==
    /\ resp.code = 0
    /\ resp' = [ code |-> get_state_raw_response(State).code,
                 body |-> get_state_raw_response(State).body,
                 prev |-> committed ]
    /\ UNCHANGED << now, disk, LAST_GOOD, State, pc, opts, result, updated, changed,
                    last_change_utc, probe_started_utc, last_seen_read_at, stmt,
                    committed, prev_obs >>

NextRace ==
    \/ RaceFetch \/ RaceReconcile \/ RaceStmt \/ RaceMode \/ RacePublish \/ Sleep
    \/ get_state \/ get_state_raw

SpecRace == Init /\ [][NextRace]_vars

\* ------------------------------------------------------ the status query
\* The loop statement by statement with GET /state as the only reader.
NextStatus ==
    \/ RaceFetch \/ RaceReconcile \/ RaceStmt \/ RaceMode \/ RacePublish \/ Sleep
    \/ get_state

SpecStatus == Init /\ [][NextStatus]_vars

\* ------------------------------------------------- the delay computation
\* Lines 280-285 take any integer the options files hold (ui_save_scraper
\* stores whatever integers the form carries): the interval options below are
\* non-positive, usual, and beyond a day.
DelayOptionSets ==
    { [NoOpts EXCEPT !.idle_poll_seconds = i, !.probe_poll_seconds = p,
                     !.min_poll_seconds = m, !.jitter_seconds = j] :
        i \in {-3, 0, 60, 1800, 100000}, p \in {-3, 30, 120, 1000},
        m \in {-10, 0, 30, 900, 100000}, j \in {-1, 0, 3} }
\* Consecutive failures counted in STATE when the delay is computed.
MaxFailCount == 10
Modes == {"idle", "probe"}

\* What the iteration scraped when it has left fail_count at f: a page without
\* a reading (f = 0), or a browser timeout after f - 1 earlier failures.
DelayOutcome(f) ==
    IF f = 0 THEN scrape_once(<< None, None >>, 0)
    ELSE [NoResult EXCEPT !.error = "Timeout 60000ms exceeded"]

\* The loop at line 324 of some iteration of a process that has not accepted a
\* reading: STATE is what _apply_result_to_state left, the mode is chosen, the
\* options are those loaded at line 278.
InitDelay ==
    /\ now = 0
    /\ disk = NoLastGood
    /\ LAST_GOOD = NoLastGood
    /\ opts \in DelayOptionSets
    /\ \E m \in Modes, f \in 0 .. MaxFailCount :
            /\ result = DelayOutcome(f)
            /\ State = [_apply_result_to_state(
                            [InitialSTATE EXCEPT !.fail_count = IF f > 0 THEN f - 1 ELSE 0],
                            NoLastGood, DelayOutcome(f), FALSE, TRUE, 0)
                        EXCEPT !.mode = m]
    /\ committed = InitialSTATE
    /\ pc = "publish"
    /\ updated = FALSE
    /\ changed = FALSE
    /\ last_change_utc = None
    /\ probe_started_utc = None
    /\ last_seen_read_at = None
    /\ stmt = 0
    /\ resp = NoResp
    /\ prev_obs = NoObs

\* Line 333: time.sleep(int(sleep_seconds)) returns after the delay, or raises
\* ValueError for a negative one, which ends the thread.
DelaySleep ==
    /\ pc = "sleep"
    /\ IF State.next_poll_in_seconds >= 0
       THEN now' = now + State.next_poll_in_seconds /\ pc' = "loop"
       ELSE now' = now /\ pc' = "dead"
    /\ UNCHANGED << disk, LAST_GOOD, State, opts, result, updated, changed,
                    last_change_utc, probe_started_utc, last_seen_read_at, stmt,
                    committed, resp, prev_obs >>

NextDelay == RacePublish \/ DelaySleep

SpecDelay == InitDelay /\ [][NextDelay]_vars

\* ------------------------------------------------------ runs of failures
\* The loop polling every few seconds, so that long runs of failed iterations
\* and the recovery after them fit into the time the model covers.
FailOptionSets ==
    { [NoOpts EXCEPT !.idle_poll_seconds = 10, !.probe_poll_seconds = 5,
                     !.min_poll_seconds = 5, !.jitter_seconds = 0,
                     !.keep_last_on_error = k] : k \in BOOLEAN }
FailTexts == {<< 1000000, 1 >>, EmptyTxt}

FailIteration ==
    /\ Iteration(FailOptionSets, FailTexts, RaceErrors)
    /\ UNCHANGED prev_obs

NextFail == FailIteration \/ Sleep

\* time.sleep returns: a sleeping loop goes on to its next iteration.
SpecFail == Init /\ [][NextFail]_vars /\ WF_vars(Sleep)

\* ------------------------------------------------------------------ claims
\* A step that is one whole iteration of the loop: the primed variables are the
\* state when the iteration reaches its sleep, opts' and result' what it loaded
\* and scraped.
Cycle == pc = "loop" /\ pc' = "sleep"

\* C1. Monotonicity: over an iteration run with allow_decrease = false, success
\* or failure, the reading of LAST_GOOD does not decrease, and a present
\* reading does not become absent.
C1_Monotonic ==
    [][ (Cycle /\ ~opts'.allow_decrease) =>
            /\ LAST_GOOD'.reading_m3 >= LAST_GOOD.reading_m3
            /\ (LAST_GOOD.reading_m3 # None => LAST_GOOD'.reading_m3 # None) ]_vars

\* C1 witness: an iteration with allow_decrease = false has scraped a reading
\* below the reading LAST_GOOD holds after it.
C1_Witness ==
    /\ pc = "sleep" /\ ~opts.allow_decrease
    /\ result.ok /\ result.reading_m3 # None
    /\ result.reading_m3 < LAST_GOOD.reading_m3

\* C2. After every iteration the exposed reading and read-at timestamp are
\* both absent or both those of LAST_GOOD (never the scraped values where
\* these differ), and an exposed reading is never below the reading LAST_GOOD
\* held before the iteration, so the exposed readings never regress.
C2_ExposedMirrorsLastGood ==
    [][ Cycle =>
            /\ \/ State'.reading_m3 = None /\ State'.read_at_iso = None
               \/ /\ State'.reading_m3 = LAST_GOOD'.reading_m3
                  /\ State'.read_at_iso = LAST_GOOD'.read_at_iso
            /\ (State'.reading_m3 # None =>
                    /\ State'.reading_m3 >= LAST_GOOD.reading_m3
                    /\ State'.reading_m3 >= State.reading_m3) ]_vars

\* C2 witness: a successful scrape whose reading differs from the exposed one.
C2_Witness ==
    /\ pc = "sleep" /\ result.ok
    /\ result.reading_m3 # None /\ State.reading_m3 # None
    /\ result.reading_m3 # State.reading_m3

\* C3. Torn reads are impossible: an answer of /state or /state_raw given while
\* the loop runs an iteration is the complete status the previous iteration
\* left (prev) or the complete status this iteration leaves when it reaches
\* its sleep, never a mix of the two.
C3_NoTornRead ==
    (pc = "sleep" /\ resp.code # 0) =>
    (resp.body = resp.prev \/ resp.body = State)

\* C4. Tolerance boundary: with allow_decrease = false and a reading old in
\* LAST_GOOD, a scraped reading r is accepted iff r >= old - tolerance; when
\* accepted, max(r, old) is stored; when rejected, LAST_GOOD and the file are
\* unchanged.  With old = 100.0000 and tolerance 0.0005, 99.9996 is accepted
\* and stored as 100.0000, and 99.9994 is rejected.
C4_ToleranceBoundary ==
    [][ ( /\ Cycle /\ ~opts'.allow_decrease
          /\ LAST_GOOD.reading_m3 # None
          /\ result'.ok /\ result'.reading_m3 # None ) =>
        LET r   == result'.reading_m3
            old == LAST_GOOD.reading_m3
            tol == opts'.decrease_tolerance_m3
        IN  /\ updated' <=> (r >= old - tol)
            /\ updated' => LAST_GOOD'.reading_m3 = (IF r >= old THEN r ELSE old)
            /\ ~updated' => (LAST_GOOD' = LAST_GOOD /\ disk' = disk)
            /\ (old = 1000000 /\ tol = 5 /\ r = 999996) =>
                    (updated' /\ LAST_GOOD'.reading_m3 = 1000000)
            /\ (old = 1000000 /\ tol = 5 /\ r = 999994) => ~updated' ]_vars

\* C4 witness: 99.9994 was scraped over 100.0000 with tolerance 0.0005 and
\* allow_decrease = false, and was rejected.
C4_Witness ==
    /\ pc = "sleep" /\ ~opts.allow_decrease /\ opts.decrease_tolerance_m3 = 5
    /\ result.ok /\ result.reading_m3 = 999994
    /\ LAST_GOOD.reading_m3 = 1000000 /\ ~updated

\* C5. Decrease override: with allow_decrease = true, a scraped reading below
\* the reading of LAST_GOOD is accepted, becomes the reading of LAST_GOOD, and
\* the exposed reading follows it.
C5_DecreaseOverride ==
    [][ ( /\ Cycle /\ opts'.allow_decrease
          /\ LAST_GOOD.reading_m3 # None
          /\ result'.ok /\ result'.reading_m3 # None
          /\ result'.reading_m3 < LAST_GOOD.reading_m3 ) =>
        /\ updated'
        /\ LAST_GOOD'.reading_m3 = result'.reading_m3
        /\ State'.reading_m3 = result'.reading_m3 ]_vars

\* C6. Failure resilience: after a failed iteration with keep_last_on_error =
\* true and a reading in LAST_GOOD, STATE.ok is true and the exposed reading is
\* that of LAST_GOOD, however many failures came before.
C6_FailureResilience ==
    ( /\ pc = "sleep" /\ ~result.ok
      /\ opts.keep_last_on_error /\ LAST_GOOD.reading_m3 # None ) =>
    (State.ok /\ State.reading_m3 = LAST_GOOD.reading_m3)

\* C6 witness: the second of two consecutive failed iterations with a reading
\* in LAST_GOOD and keep_last_on_error = true.
C6_Witness ==
    /\ pc = "sleep" /\ ~result.ok /\ State.fail_count >= 2
    /\ opts.keep_last_on_error /\ LAST_GOOD.reading_m3 # None

\* C7. Startup recovery: when the process has started on a file holding a
\* reading, then before any iteration has completed STATE.ok is true and the
\* exposed reading is the persisted one.
C7_StartupRecovery ==
    ( /\ pc = "loop" /\ State.next_poll_in_seconds = None
      /\ disk.reading_m3 # None ) =>
    (State.ok /\ State.reading_m3 = disk.reading_m3)

\* C8. Idempotence of repeated identical reads: a successful scrape that
\* returns the same (reading, observed_at) as the successful scrape processed
\* before it, whatever the pair (an absent observed_at included), is not
\* registered as a change and leaves last_change_utc as it was.
C8_RepeatedReadIsNoChange ==
    [][ ( /\ Cycle /\ result'.ok
          /\ prev_obs = << result'.reading_m3, result'.read_at_iso >> ) =>
        (~changed' /\ last_change_utc' = last_change_utc) ]_vars

\* C9. Idle to Probe: an iteration selects Probe whenever no change has been
\* observed in this process or the last change is probe_after_minutes * 60
\* seconds old or older, and Idle when the last change is younger; the one
\* exception is an iteration in which the probe window has just expired.
C9_ModeByAgeOfChange ==
    [][ Cycle =>
        LET due == \/ last_change_utc' = None
                   \/ now' - last_change_utc' >= opts'.probe_after_minutes * 60
            expired == /\ ~changed' /\ probe_started_utc # None
                       /\ now' - probe_started_utc > opts'.probe_max_minutes * 60
        IN  /\ (due /\ ~expired) => State'.mode = "probe"
            /\ ~due => State'.mode = "idle" ]_vars

\* C9 witness: an iteration without a change finds the last change exactly
\* probe_after_minutes * 60 seconds old, and Probe is selected.
C9_Witness ==
    /\ pc = "sleep" /\ ~changed /\ last_change_utc # None
    /\ opts.probe_after_minutes >= 1
    /\ now - last_change_utc = opts.probe_after_minutes * 60
    /\ State.mode = "probe"

\* C10. Probe to Idle on change: when an iteration that starts in Probe accepts
\* an observation with a new observed_at and probe_after_minutes >= 1, it sets
\* last_change_utc to the current time, clears probe_started_utc, publishes
\* mode Idle and takes the next delay from the idle poll interval.
C10_ProbeToIdleOnChange ==
    [][ ( /\ Cycle /\ State.mode = "probe"
          /\ updated' /\ changed'
          /\ result'.read_at_iso # None
          /\ result'.read_at_iso # last_seen_read_at
          /\ opts'.probe_after_minutes >= 1 ) =>
        LET base == IF opts'.idle_poll_seconds >= opts'.min_poll_seconds
                    THEN opts'.idle_poll_seconds ELSE opts'.min_poll_seconds
            jit  == IF opts'.jitter_seconds >= 0 THEN opts'.jitter_seconds ELSE 0
        IN  /\ last_change_utc' = now'
            /\ probe_started_utc' = None
            /\ State'.mode = "idle"
            /\ State'.next_poll_in_seconds >= base
            /\ State'.next_poll_in_seconds <= base + jit ]_vars

\* C10 witness: a later iteration of the process (the one before it published
\* Probe, as no change had been observed) has accepted an observation with a
\* new observed_at under probe_after_minutes >= 1.
C10_Witness ==
    /\ pc = "sleep" /\ now > 0
    /\ updated /\ changed /\ result.read_at_iso # None
    /\ last_change_utc = now
    /\ opts.probe_after_minutes >= 1
    /\ State.mode = "idle"

\* C11. Probe timeout: an iteration without a change that finds Probe due and
\* the probe window older than probe_max_minutes * 60 seconds publishes Idle,
\* clears the window and takes its delay from the idle poll interval; an
\* iteration without a change that finds Probe due and no window open
\* publishes Probe with a window starting now; and whenever an iteration
\* publishes Probe its window is at most probe_max_minutes * 60 seconds old,
\* so Probe outlasts probe_max_minutes by at most one poll delay.
C11_ProbeTimeout ==
    [][ Cycle =>
        LET due     == \/ last_change_utc' = None
                       \/ now' - last_change_utc' >= opts'.probe_after_minutes * 60
            expired == /\ ~changed' /\ due /\ probe_started_utc # None
                       /\ now' - probe_started_utc > opts'.probe_max_minutes * 60
            fresh   == ~changed' /\ due /\ probe_started_utc = None
            f       == State'.fail_count
            factor  == IF 2 + f <= 8 THEN 2 + f ELSE 8
            backed  == IF f > 0
                       THEN (IF (opts'.idle_poll_seconds * factor) \div 2 <= 900
                             THEN (opts'.idle_poll_seconds * factor) \div 2 ELSE 900)
                       ELSE opts'.idle_poll_seconds
            base    == IF backed >= opts'.min_poll_seconds
                       THEN backed ELSE opts'.min_poll_seconds
            jit     == IF opts'.jitter_seconds >= 0 THEN opts'.jitter_seconds ELSE 0
        IN  /\ expired => /\ State'.mode = "idle"
                          /\ probe_started_utc' = None
                          /\ State'.next_poll_in_seconds >= base
                          /\ State'.next_poll_in_seconds <= base + jit
            /\ fresh => (State'.mode = "probe" /\ probe_started_utc' = now')
            /\ State'.mode = "probe" =>
                    /\ probe_started_utc' # None
                    /\ now' - probe_started_utc' <= opts'.probe_max_minutes * 60 ]_vars

\* C11 witness: an iteration without a change found Probe due (by the age of
\* the last change, or none seen) but published Idle: the window, open longer
\* than probe_max_minutes >= 1, had expired.
C11_Witness ==
    /\ pc = "sleep" /\ ~changed
    /\ opts.probe_max_minutes >= 1
    /\ \/ last_change_utc = None
       \/ now - last_change_utc >= opts.probe_after_minutes * 60
    /\ State.mode = "idle" /\ probe_started_utc = None

\* C12. Backoff bound: with fail_count f > 0 (and interval options that are
\* not negative) the published delay lies between v and v + jitter_seconds,
\* where v = max(min(floor(base * min(4, 1 + f/2)), 900), min_poll_seconds)
\* and base is idle_poll_seconds in Idle, probe_poll_seconds in Probe; with
\* f = 10, idle_poll_seconds = 1800 and min_poll_seconds <= 900 in Idle the
\* delay lies in [900, 900 + jitter_seconds].
C12_BackoffBound ==
    ( /\ pc = "sleep" /\ State.fail_count > 0
      /\ opts.idle_poll_seconds >= 0 /\ opts.probe_poll_seconds >= 0
      /\ opts.jitter_seconds >= 0 ) =>
    LET f      == State.fail_count
        base   == IF State.mode = "idle" THEN opts.idle_poll_seconds
                  ELSE opts.probe_poll_seconds
        halves == IF 2 + f <= 8 THEN 2 + f ELSE 8
        backed == (base * halves) \div 2
        capped == IF backed <= 900 THEN backed ELSE 900
        v      == IF capped >= opts.min_poll_seconds THEN capped
                  ELSE opts.min_poll_seconds
        d      == State.next_poll_in_seconds
    IN  /\ v <= d /\ d <= v + opts.jitter_seconds
        /\ ( /\ f = 10 /\ State.mode = "idle" /\ opts.idle_poll_seconds = 1800
              /\ opts.min_poll_seconds <= 900 ) =>
            (900 <= d /\ d <= 900 + opts.jitter_seconds)

\* C12 witness: the delay published after ten failures in Idle with
\* idle_poll_seconds = 1800, min_poll_seconds = 30 and a jitter drawn above 0.
C12_Witness ==
    /\ pc = "sleep" /\ State.fail_count = 10 /\ State.mode = "idle"
    /\ opts.idle_poll_seconds = 1800 /\ opts.min_poll_seconds = 30
    /\ opts.jitter_seconds = 3 /\ State.next_poll_in_seconds > 900

\* C13. Delay sanity bound: for every configuration the loop can load, every
\* mode and every fail_count, the delay published as next_poll_in_seconds and
\* slept lies in [min_poll_seconds, 86400].
C13_DelaySanityBound ==
    pc = "sleep" =>
        /\ State.next_poll_in_seconds >= opts.min_poll_seconds
        /\ State.next_poll_in_seconds <= 86400

\* C14. A failure is never fatal: an iteration whose scrape raises still
\* counts and records the failure, publishes a mode and a positive delay and
\* reaches its sleep; the sleep ends and the next iteration begins (within the
\* time the model covers), after any number of consecutive failures; and a
\* reading scraped after failures is accepted, which resets fail_count.
C14_FailureNeverFatal ==
    /\ [][ Cycle =>
            /\ ~result'.ok =>
                    /\ State'.fail_count = State.fail_count + 1
                    /\ State'.error # NoneStr /\ State'.error # ""
                    /\ State'.mode \in {"idle", "probe"}
                    /\ State'.next_poll_in_seconds > 0
            /\ (result'.ok /\ result'.reading_m3 # None /\ State.fail_count > 0
                 /\ result'.reading_m3 >= LAST_GOOD.reading_m3) =>
                    /\ updated' /\ State'.ok /\ State'.fail_count = 0
                    /\ LAST_GOOD'.reading_m3 = result'.reading_m3
                    /\ State'.reading_m3 = result'.reading_m3 ]_vars
    /\ ( ( /\ pc = "sleep" /\ ~result.ok
            /\ now + State.next_poll_in_seconds <= MaxTime ) ~> (pc = "loop") )

\* C14 witness: after six consecutive failed iterations (the backoff factor
\* is at its maximum, so further failures change nothing but the count) the
\* loop has slept and begun another iteration.
C14_Witness ==
    /\ pc = "loop" /\ State.fail_count >= 6
    /\ State.error = "Timeout 60000ms exceeded"

\* C15. Status query semantics: an answer of /state that shows a complete
\* status (the one the last completed iteration left, or the initial one) is
\* unavailable (503) exactly when that status has ok false, and otherwise is
\* the full record with a present reading.
C15_UnavailableIffUnhealthy ==
    (resp.code # 0 /\ resp.body = resp.prev) =>
        /\ (resp.code = 503) <=> ~resp.body.ok
        /\ (resp.code # 503) => resp.body.reading_m3 # None

\* C16. Store failures do not roll back memory: an iteration that accepts a
\* reading leaves the accepted value (the larger of the scraped reading and
\* the one held before) in LAST_GOOD and in the exposed STATE and reaches its
\* sleep, whether the write succeeded (the file equals LAST_GOOD) or failed
\* (the file is as before, or unreadable); an iteration that accepts nothing
\* leaves the file alone; and after every iteration the reading in the file
\* is absent or not greater than the reading in memory.
C16_StoreFailureKeepsMemory ==
    [][ Cycle =>
        /\ updated' =>
            /\ LAST_GOOD'.reading_m3 =
                    (IF result'.reading_m3 >= LAST_GOOD.reading_m3
                     THEN result'.reading_m3 ELSE LAST_GOOD.reading_m3)
            /\ State'.reading_m3 = LAST_GOOD'.reading_m3 /\ State'.ok
            /\ pc' = "sleep"
            /\ \/ disk' = LAST_GOOD'
               \/ disk' = disk
               \/ disk'.reading_m3 = None
        /\ ~updated' => disk' = disk
        /\ \/ disk'.reading_m3 = None
           \/ (LAST_GOOD'.reading_m3 # None /\ disk'.reading_m3 <= LAST_GOOD'.reading_m3)
      ]_vars

\* C16 witness: a reading above the persisted one was accepted and the write
\* failed: the file still holds the smaller, older reading.
C16_Witness ==
    /\ pc = "sleep" /\ updated
    /\ disk.reading_m3 # None /\ disk.reading_m3 < LAST_GOOD.reading_m3
    /\ State.reading_m3 = LAST_GOOD.reading_m3

\* C17. Effect and frame of a failed iteration: fail_count grows by exactly 1,
\* STATE.error is the failure reason (the exception's message, "Unknown error"
\* when it has none), STATE.stale is true; LAST_GOOD, the file,
\* last_success_utc, last_change_utc and last_seen_read_at are unchanged; and
\* when keep_last_on_error is false or LAST_GOOD has no reading, STATE.ok is
\* false and the exposed reading and timestamp are absent.
C17_FailedCycleEffect ==
    [][ (Cycle /\ ~result'.ok) =>
        /\ State'.fail_count = State.fail_count + 1
        /\ State'.error = (IF result'.error # "" THEN result'.error ELSE "Unknown error")
        /\ State'.stale
        /\ LAST_GOOD' = LAST_GOOD /\ disk' = disk
        /\ State'.last_success_utc = State.last_success_utc
        /\ last_change_utc' = last_change_utc
        /\ last_seen_read_at' = last_seen_read_at
        /\ (~opts'.keep_last_on_error \/ LAST_GOOD.reading_m3 = None) =>
                /\ ~State'.ok
                /\ State'.reading_m3 = None /\ State'.read_at_iso = None ]_vars

\* C17 witness: an iteration failed with keep_last_on_error = false after a
\* reading had been accepted and a change seen; the exposed reading is gone.
C17_Witness ==
    /\ pc = "sleep" /\ ~result.ok /\ ~opts.keep_last_on_error
    /\ LAST_GOOD.reading_m3 # None /\ State.last_success_utc # None
    /\ last_change_utc # None /\ last_seen_read_at # None
    /\ State.reading_m3 = None /\ State.fail_count >= 1

\* C18. A parse error is an ordinary failure: an iteration whose page text
\* yields no reading increments fail_count, records a non-empty STATE.error,
\* sets STATE.stale, and computes its delay with the increased fail_count.
C18_ParseErrorIsFailure ==
    [][ (Cycle /\ result'.ok /\ result'.reading_m3 = None) =>
        /\ State'.fail_count = State.fail_count + 1
        /\ State'.error # NoneStr /\ State'.error # ""
        /\ State'.stale ]_vars

\* C19. Stale flag: after every iteration STATE.stale is true iff the
\* iteration accepted no observation (it failed, its reading was rejected, or
\* its page had no reading).
C19_StaleIffNotAccepted ==
    [][ Cycle => (State'.stale <=> ~updated') ]_vars

\* C20. Rejected observations never count as a change: an iteration whose
\* scraped reading _update_last_good rejects registers no change and leaves
\* last_change_utc and last_seen_read_at as they were (so change detection
\* neither restarts the Idle period nor clears the probe window), also when
\* LAST_GOOD holds a reading without a timestamp.
C20_RejectedIsNoChange ==
    [][ ( /\ Cycle /\ result'.ok /\ result'.reading_m3 # None
          /\ LAST_GOOD.reading_m3 # None /\ ~updated' ) =>
        /\ ~changed'
        /\ last_change_utc' = last_change_utc
        /\ last_seen_read_at' = last_seen_read_at ]_vars

\* C21. No terminal state: for every configuration the loop can load
\* (non-positive and very large intervals included) and every outcome, the
\* poll loop never dies: the sleep of each iteration returns and the next
\* iteration follows.
C21_NoTerminalState ==
    pc # "dead"

\* C22, as stated. Backoff never shortens the wait: for the same mode and
\* configuration the pre-jitter delay with fail_count > 0 (the published
\* delay, where the configuration draws no jitter) is never smaller than the
\* pre-jitter delay with fail_count = 0, max(base, min_poll_seconds).
C22_BackoffNeverShortens ==
    ( /\ pc = "sleep" /\ State.fail_count > 0 /\ opts.jitter_seconds <= 0 ) =>
    LET base == IF State.mode = "idle" THEN opts.idle_poll_seconds
                ELSE opts.probe_poll_seconds
        calm == IF base >= opts.min_poll_seconds THEN base ELSE opts.min_poll_seconds
    IN  State.next_poll_in_seconds >= calm

\* C22, amended. Backoff shortens the wait only through its cap: for a base
\* interval that is not negative, the pre-jitter delay with fail_count > 0 is
\* never smaller than the smaller of the delay with fail_count = 0 and
\* max(900, min_poll_seconds); so it is never smaller than the delay with
\* fail_count = 0 when the base interval is at most 900 seconds.
C22_BackoffShortensOnlyToCap ==
    ( /\ pc = "sleep" /\ State.fail_count > 0 /\ opts.jitter_seconds <= 0
      /\ (IF State.mode = "idle" THEN opts.idle_poll_seconds
          ELSE opts.probe_poll_seconds) >= 0 ) =>
    LET base   == IF State.mode = "idle" THEN opts.idle_poll_seconds
                  ELSE opts.probe_poll_seconds
        calm   == IF base >= opts.min_poll_seconds THEN base ELSE opts.min_poll_seconds
        capped == IF 900 >= opts.min_poll_seconds THEN 900 ELSE opts.min_poll_seconds
        d      == State.next_poll_in_seconds
    IN  /\ d >= (IF calm <= capped THEN calm ELSE capped)
        /\ base <= 900 => d >= calm

\* C22 witness: in Idle with idle_poll_seconds = 1800, min_poll_seconds = 30
\* and no jitter, the delay published after a failure is 900, where it is 1800
\* without failures.
C22_Witness ==
    /\ pc = "sleep" /\ State.fail_count > 0 /\ State.mode = "idle"
    /\ opts.idle_poll_seconds = 1800 /\ opts.min_poll_seconds = 30
    /\ opts.jitter_seconds = 0 /\ State.next_poll_in_seconds = 900

====
